---- MODULE Spec2Model ----
(***************************************************************************)
(* Model of jt_ssh_client.connector.Connector: construction of the session *)
(* (credential check, key loading, connect, derivation of the SCP and SFTP *)
(* clients), disconnect, the single/batch transfer operations, the batch   *)
(* removals, the command runner and the Android backup helpers.            *)
(*                                                                         *)
(* Python values are modelled by strings: "absent" is an attribute that    *)
(* was never assigned, "None" is None, a client object is named by its     *)
(* class ("SSHClient", "SCPClient", "SFTPClient").  An exception is named  *)
(* by its class; "none" means the call returned normally.                  *)
(***************************************************************************)
EXTENDS Integers, Sequences, FiniteSets, TLC

VARIABLES
    self,        \* the Connector's attributes
    phase,       \* "new" (not constructed), "active" (constructed), "failed" (constructor raised)
    error,       \* the exception the constructor raised, "none" otherwise
    env,         \* the arguments and the environment the constructor ran against
    connects,    \* the client.connect calls issued so far, in order
    closed,      \* the clients on which a close() has returned
    closeIssued, \* per client, the number of close() calls issued
    disconnects, \* number of disconnect() calls made
    lastClose,   \* what the last disconnect() call did
    lastOp       \* the transfer operation called on the Connector and what it did

vars == <<self, phase, error, env, connects, closed, closeIssued, disconnects,
          lastClose, lastOp>>

----------------------------------------------------------------------------
\* Bounds of the model

MaxSources == 3        \* longest list of sources handed to a batch download
MaxUploadSources == 2  \* longest list of sources handed to a batch upload
MaxDisconnects == 2    \* disconnect() is called at most this many times
MaxCommands == 3       \* longest list of commands handed to _execute_commands

----------------------------------------------------------------------------
\* enums.Client

Client == {"SSHClient", "SCPClient", "SFTPClient"}

\* Python truthiness of the values used here
Truthy(v) == v \notin {"absent", "None", ""}

\* hasattr(self, name)
hasattr(obj, name) == obj[name] # "absent"

----------------------------------------------------------------------------
\* Constructor

Usernames == {"None", "", "bob"}
Passwords == {"None", "", "x"}
KeyFiles  == {"id_rsa", "id_rsa.pub"}
SshCredentials == {<<>>, <<"id_rsa", "id_rsa.pub", "None">>}
\* what client.connect does: returns, or raises one of the two exceptions
\* _create_ssh_client names, or another one (host unreachable, timeout)
ConnectOutcomes == {"none", "BadHostKeyException", "AuthenticationException", "OSError"}

\* What the constructor is called with and what it meets outside
\* (without key paths the disk and the key are never looked at: one value each)
Envs ==
    {e \in [username : Usernames, password : Passwords,
            ssh_credentials : SshCredentials,
            disk : SUBSET KeyFiles,        \* the key files that exist
            keyValid : BOOLEAN,            \* RSAKey.from_private_key_file succeeds
            connect : ConnectOutcomes,     \* what client.connect does
            transport : BOOLEAN,           \* get_transport() returns a transport
            sftp : BOOLEAN] :              \* open_sftp() succeeds
        e.ssh_credentials = <<>> => (e.disk = KeyFiles /\ e.keyValid)}

\* The object before __init__ has run: no attribute assigned
NoObject ==
    [username |-> "absent", password |-> "absent",
     ssh_private_key |-> "absent", ssh_private_key_file |-> "absent",
     ssh_public_key_file |-> "absent", ssh_key_passphrase |-> "absent",
     ssh_client |-> "absent", scp_client |-> "absent", sftp_client |-> "absent"]

\* A construction in progress: the object, the exception raised so far, the
\* connect calls issued
Ctor(obj, err, conns) == [self |-> obj, err |-> err, connects |-> conns]

\* Path.exists()
exists(path, e) == path \in e.disk

\* InitFields whose key file check passes when either file exists
InitFields_any(e) ==
    LET o0 == [NoObject EXCEPT !.username = e.username, !.password = e.password,
                               !.ssh_private_key = "None",
                               !.ssh_private_key_file = "None",
                               !.ssh_public_key_file = "None",
                               !.ssh_key_passphrase = "None"]
    IN  IF e.ssh_credentials # <<>>
        THEN IF exists(e.ssh_credentials[1], e) \/ exists(e.ssh_credentials[2], e)
             THEN Ctor([o0 EXCEPT !.ssh_private_key_file = e.ssh_credentials[1],
                                  !.ssh_public_key_file = e.ssh_credentials[2],
                                  !.ssh_key_passphrase = e.ssh_credentials[3]],
                       "none", <<>>)
             ELSE Ctor(o0, "FileExistsError", <<>>)
        ELSE Ctor(o0, "none", <<>>)

\* __init__, lines 65-90: plain assignments, then the key file check
InitFields(e) ==
    LET o0 == [NoObject EXCEPT !.username = e.username, !.password = e.password,
                               !.ssh_private_key = "None",
                               !.ssh_private_key_file = "None",
                               !.ssh_public_key_file = "None",
                               !.ssh_key_passphrase = "None"]
    IN  IF e.ssh_credentials # <<>>
        THEN IF exists(e.ssh_credentials[1], e) /\ exists(e.ssh_credentials[2], e)
             THEN Ctor([o0 EXCEPT !.ssh_private_key_file = e.ssh_credentials[1],
                                  !.ssh_public_key_file = e.ssh_credentials[2],
                                  !.ssh_key_passphrase = e.ssh_credentials[3]],
                       "none", <<>>)
             ELSE Ctor(o0, "FileExistsError", <<>>)
        ELSE Ctor(o0, "none", <<>>)

\* _retrieve_ssh_key
_retrieve_ssh_key(c, e) ==
    IF Truthy(c.self.ssh_private_key_file)
    THEN IF e.keyValid
         THEN [c EXCEPT !.self.ssh_private_key = "RSAKey"]
         ELSE [c EXCEPT !.err = "SSHException"]
    ELSE c

\* one client.connect call: the arguments that tell the two call sites apart
ConnectCall(obj, withKey) ==
    [pkey |-> IF withKey THEN obj.ssh_private_key ELSE "None",
     username |-> obj.username, password |-> obj.password]

\* Connected that assigns self.ssh_client before the connect call is made
Connected_assigned_first(c, e, withKey) ==
    LET c1 == [c EXCEPT !.connects = Append(@, ConnectCall(c.self, withKey)),
                        !.self.ssh_client = "SSHClient"]
    IN  IF e.connect = "none" THEN c1 ELSE [c1 EXCEPT !.err = e.connect]

\* the outcome of client.connect: on success the object gets its ssh_client
Connected(c, e, withKey) ==
    LET c1 == [c EXCEPT !.connects = Append(@, ConnectCall(c.self, withKey))]
    IN  IF e.connect = "none"
        THEN [c1 EXCEPT !.self.ssh_client = "SSHClient"]
        ELSE [c1 EXCEPT !.err = e.connect]

\* _create_ssh_client that tries the username and password before the key
_create_ssh_client_password_first(c, e) ==
    IF Truthy(c.self.username) /\ Truthy(c.self.password)
    THEN Connected(c, e, FALSE)
    ELSE IF Truthy(c.self.ssh_private_key)
         THEN Connected(c, e, TRUE)
         ELSE [c EXCEPT !.err = "Exception: Invalid credentials supplied"]

\* _create_ssh_client that asks for a username or a password, not both
_create_ssh_client_or(c, e) ==
    IF Truthy(c.self.ssh_private_key)
    THEN Connected(c, e, TRUE)
    ELSE IF Truthy(c.self.username) \/ Truthy(c.self.password)
         THEN Connected(c, e, FALSE)
         ELSE [c EXCEPT !.err = "Exception: Invalid credentials supplied"]

\* _create_ssh_client
_create_ssh_client(c, e) ==
    IF Truthy(c.self.ssh_private_key)
    THEN Connected(c, e, TRUE)
    ELSE IF Truthy(c.self.username) /\ Truthy(c.self.password)
         THEN Connected(c, e, FALSE)
         ELSE [c EXCEPT !.err = "Exception: Invalid credentials supplied"]

\* _create_scp_client: the client is assigned only when there is a transport,
\* and the return statement reads self.scp_client either way
_create_scp_client(c, e) ==
    LET c1 == IF e.transport THEN [c EXCEPT !.self.scp_client = "SCPClient"] ELSE c
    IN  IF hasattr(c1.self, "scp_client")
        THEN c1
        ELSE [c1 EXCEPT !.err = "AttributeError"]

\* _create_sftp_client that opens the sftp channel over a connection of its own
_create_sftp_client_reconnecting(c, e) ==
    LET c1 == [c EXCEPT !.connects =
                   Append(@, ConnectCall(c.self, Truthy(c.self.ssh_private_key)))]
    IN  IF e.sftp
        THEN [c1 EXCEPT !.self.sftp_client = "SFTPClient"]
        ELSE [c1 EXCEPT !.err = "SSHException"]

\* _create_sftp_client
_create_sftp_client(c, e) ==
    IF e.sftp
    THEN [c EXCEPT !.self.sftp_client = "SFTPClient"]
    ELSE [c EXCEPT !.err = "SSHException"]

\* __init__: the key file check, then lines 95-98; a step runs only if nothing
\* was raised before it
__init__(e) ==
    LET c0 == InitFields(e)
        c1 == IF c0.err = "none" THEN _retrieve_ssh_key(c0, e) ELSE c0
        c2 == IF c1.err = "none" THEN _create_ssh_client(c1, e) ELSE c1
        c3 == IF c2.err = "none" THEN _create_scp_client(c2, e) ELSE c2
    IN  IF c3.err = "none" THEN _create_sftp_client(c3, e) ELSE c3

----------------------------------------------------------------------------
\* Transfers

\* isinstance(value, cls) for the client objects
isinstance(value, cls) == value = cls

\* _get_client that hands out the sftp client for every tag but SCPClient
_get_client_sftp_default(obj, client) ==
    IF client = "SCPClient" THEN obj.scp_client ELSE obj.sftp_client

\* _get_client
_get_client(obj, client) ==
    IF client = "SSHClient" THEN obj.ssh_client
    ELSE IF client = "SCPClient" THEN obj.scp_client
    ELSE obj.sftp_client

\* What an operation has done so far: the get/put calls it issued on the
\* clients, in order, and the exception that ended it
Acc(calls, err) == [calls |-> calls, err |-> err]

\* a get or put issued on a client; it raises when the path is one of those
\* the remote side fails on
Issue(acc, call, fails) ==
    Acc(Append(acc.calls, call), IF call.path \in fails THEN "IOError" ELSE "none")

NotSupported == "Exception: not currently supported"

\* _download_file that hands the recursive flag to the sftp get as well
_download_file_sftp_recursive(obj, client, source, destination, recursive, fails, acc) ==
    LET _client == _get_client(obj, client)
    IN  IF isinstance(_client, "SCPClient")
        THEN Issue(acc, [handle |-> "SCPClient", method |-> "get", path |-> source,
                         dest |-> destination, recursive |-> recursive], fails)
        ELSE IF isinstance(_client, "SFTPClient")
        THEN Issue(acc, [handle |-> "SFTPClient", method |-> "get", path |-> source,
                         dest |-> destination, recursive |-> recursive], fails)
        ELSE Acc(acc.calls, NotSupported)

\* _download_file
_download_file(obj, client, source, destination, recursive, fails, acc) ==
    LET _client == _get_client(obj, client)
    IN  IF isinstance(_client, "SCPClient")
        THEN Issue(acc, [handle |-> "SCPClient", method |-> "get", path |-> source,
                         dest |-> destination, recursive |-> recursive], fails)
        ELSE IF isinstance(_client, "SFTPClient")
        THEN Issue(acc, [handle |-> "SFTPClient", method |-> "get", path |-> source,
                         dest |-> destination, recursive |-> FALSE], fails)
        ELSE Acc(acc.calls, NotSupported)

\* _download_files that goes on to the next source after a failure
RECURSIVE _download_files_best_effort(_, _, _, _, _, _, _)
_download_files_best_effort(obj, client, sources, destination, recursive, fails, acc) ==
    IF sources = <<>> THEN acc
    ELSE LET a == _download_file(obj, client, Head(sources), destination,
                                 recursive, fails, acc)
         IN  _download_files_best_effort(obj, client, Tail(sources), destination,
                                         recursive, fails,
                                         Acc(a.calls, IF acc.err # "none" THEN acc.err
                                                      ELSE a.err))

\* _download_files that calls _download_file without the recursive argument
RECURSIVE _download_files_dropping_recursive(_, _, _, _, _, _, _)
_download_files_dropping_recursive(obj, client, sources, destination, recursive, fails, acc) ==
    IF sources = <<>> THEN acc
    ELSE LET a == _download_file(obj, client, Head(sources), destination,
                                 FALSE, fails, acc)
         IN  IF a.err # "none" THEN a
             ELSE _download_files_dropping_recursive(obj, client, Tail(sources),
                                                     destination, recursive, fails, a)

\* _download_files: the list comprehension calls _download_file on each source
\* in turn; an exception leaves the comprehension
RECURSIVE _download_files(_, _, _, _, _, _, _)
_download_files(obj, client, sources, destination, recursive, fails, acc) ==
    IF sources = <<>> THEN acc
    ELSE LET a == _download_file(obj, client, Head(sources), destination,
                                 recursive, fails, acc)
         IN  IF a.err # "none" THEN a
             ELSE _download_files(obj, client, Tail(sources), destination,
                                  recursive, fails, a)

\* backup_android_media_directories: _download_file with recursive=True on
\* each source in turn
RECURSIVE backup_android_media_directories(_, _, _, _, _, _)
backup_android_media_directories(obj, client, sources, destination, fails, acc) ==
    IF sources = <<>> THEN acc
    ELSE LET a == _download_file(obj, client, Head(sources), destination, TRUE,
                                 fails, acc)
         IN  IF a.err # "none" THEN a
             ELSE backup_android_media_directories(obj, client, Tail(sources),
                                                   destination, fails, a)

\* backup_android_document_directories: the same loop
RECURSIVE backup_android_document_directories(_, _, _, _, _, _)
backup_android_document_directories(obj, client, sources, destination, fails, acc) ==
    IF sources = <<>> THEN acc
    ELSE LET a == _download_file(obj, client, Head(sources), destination, TRUE,
                                 fails, acc)
         IN  IF a.err # "none" THEN a
             ELSE backup_android_document_directories(obj, client, Tail(sources),
                                                      destination, fails, a)

\* the default sources of the two helpers
MediaDirectories ==
    <<"/sdcard/DCIM", "/sdcard/Pictures", "/sdcard/Movies", "/sdcard/Music",
      "/sdcard/Ringtones">>
DocumentDirectories == <<"/sdcard/Download">>

\* The local tree uploads are taken from: Path.is_file, Path.is_dir, Path.iterdir
LocalFiles == {"dirA/f1.txt", "dirA/sub/f2.txt", "g.txt"}
LocalDirs  == {"dirA", "dirA/sub"}

is_file(path) == path \in LocalFiles
is_dir(path) == path \in LocalDirs

Reverse(q) == [i \in 1..Len(q) |-> q[Len(q) + 1 - i]]

\* iterdir yields the entries in an arbitrary order: rev picks one of the two
iterdir(path, rev) ==
    LET entries == IF path = "dirA" THEN <<"dirA/f1.txt", "dirA/sub">>
                   ELSE IF path = "dirA/sub" THEN <<"dirA/sub/f2.txt">>
                   ELSE <<>>
    IN  IF rev THEN Reverse(entries) ELSE entries

\* _upload_file
_upload_file(obj, client, source, destination, fails, acc) ==
    LET _client == _get_client(obj, client)
    IN  IF isinstance(_client, "SCPClient")
        THEN Issue(acc, [handle |-> "SCPClient", method |-> "put", path |-> source,
                         dest |-> destination, recursive |-> FALSE], fails)
        ELSE IF isinstance(_client, "SFTPClient")
        THEN Issue(acc, [handle |-> "SFTPClient", method |-> "put", path |-> source,
                         dest |-> destination, recursive |-> FALSE], fails)
        ELSE Acc(acc.calls, NotSupported)

\* _upload_files: a file is uploaded; a directory is walked when recursive is
\* set, by one nested _upload_files call per entry.  The nested call is made
\* without the recursive argument, which is then its default, False.
RECURSIVE _upload_files(_, _, _, _, _, _, _, _)
RECURSIVE UploadEntries(_, _, _, _, _, _, _)
\* _upload_files that walks a directory whether or not recursive is set
RECURSIVE _upload_files_always_walking(_, _, _, _, _, _, _, _)
_upload_files_always_walking(obj, client, sources, destination, recursive, fails, rev, acc) ==
    IF sources = <<>> THEN acc
    ELSE LET source == Head(sources)
             a1 == IF is_file(source)
                   THEN _upload_file(obj, client, source, destination, fails, acc)
                   ELSE acc
             a2 == IF a1.err = "none" /\ is_dir(source)
                   THEN UploadEntries(obj, client, iterdir(source, rev), destination,
                                      fails, rev, a1)
                   ELSE a1
         IN  IF a2.err # "none" THEN a2
             ELSE _upload_files_always_walking(obj, client, Tail(sources),
                                               destination, recursive, fails, rev, a2)

_upload_files(obj, client, sources, destination, recursive, fails, rev, acc) ==
    IF sources = <<>> THEN acc
    ELSE LET source == Head(sources)
             a1 == IF is_file(source)
                   THEN _upload_file(obj, client, source, destination, fails, acc)
                   ELSE acc
             a2 == IF a1.err = "none" /\ is_dir(source) /\ recursive
                   THEN UploadEntries(obj, client, iterdir(source, rev), destination,
                                      fails, rev, a1)
                   ELSE a1
         IN  IF a2.err # "none" THEN a2
             ELSE _upload_files(obj, client, Tail(sources), destination, recursive,
                                fails, rev, a2)

\* the loop "for item in source.iterdir()" of _upload_files
UploadEntries(obj, client, items, destination, fails, rev, acc) ==
    IF items = <<>> THEN acc
    ELSE LET a == _upload_files(obj, client, <<Head(items)>>, destination, FALSE,
                                fails, rev, acc)
         IN  IF a.err # "none" THEN a
             ELSE UploadEntries(obj, client, Tail(items), destination, fails, rev, a)

UploadSources == {"dirA", "dirA/sub", "g.txt"}

----------------------------------------------------------------------------
\* Removal over SFTP

\* a call made on self.sftp_client for a path
SftpCall(obj, method, path) ==
    [handle |-> obj.sftp_client, method |-> method, path |-> path, dest |-> "",
     recursive |-> FALSE]

\* _remove_directory
_remove_directory(obj, path, fails, acc) ==
    Issue(acc, SftpCall(obj, "rmdir", path), fails)

\* _remove_directories: the list comprehension calls _remove_directory on each
\* path in turn; an exception leaves the comprehension
RECURSIVE _remove_directories(_, _, _, _)
_remove_directories(obj, paths, fails, acc) ==
    IF paths = <<>> THEN acc
    ELSE LET a == _remove_directory(obj, Head(paths), fails, acc)
         IN  IF a.err # "none" THEN a
             ELSE _remove_directories(obj, Tail(paths), fails, a)

\* _remove_file
_remove_file(obj, path, fails, acc) ==
    Issue(acc, SftpCall(obj, "remove", path), fails)

\* _remove_files that goes on to the next path after a failure
RECURSIVE _remove_files_best_effort(_, _, _, _)
_remove_files_best_effort(obj, paths, fails, acc) ==
    IF paths = <<>> THEN acc
    ELSE LET a == _remove_file(obj, Head(paths), fails, acc)
         IN  _remove_files_best_effort(obj, Tail(paths), fails,
                                       Acc(a.calls, IF acc.err # "none" THEN acc.err
                                                    ELSE a.err))

\* _remove_files: the list comprehension calls _remove_file on each path in
\* turn; an exception leaves the comprehension
RECURSIVE _remove_files(_, _, _, _)
_remove_files(obj, paths, fails, acc) ==
    IF paths = <<>> THEN acc
    ELSE LET a == _remove_file(obj, Head(paths), fails, acc)
         IN  IF a.err # "none" THEN a
             ELSE _remove_files(obj, Tail(paths), fails, a)

----------------------------------------------------------------------------
\* Commands

Commands == {"echo hi", "false", "ls /sdcard"}

\* the exit status the remote shell gives a command
ExitStatus(command) == IF command = "false" THEN 1 ELSE 0

\* a call made on self.ssh_client, or on a channel of it, for a command
SshCall(obj, method, command) ==
    [handle |-> obj.ssh_client, method |-> method, path |-> command, dest |-> "",
     recursive |-> FALSE]

\* _execute_commands that leaves the loop at a non-zero exit status
RECURSIVE _execute_commands_stopping_on_status(_, _, _, _)
_execute_commands_stopping_on_status(obj, commands, fails, acc) ==
    IF commands = <<>> THEN acc
    ELSE LET command == Head(commands)
             a1 == Issue(acc, SshCall(obj, "exec_command", command), fails)
             a2 == Acc(a1.calls \o <<SshCall(obj, "recv_exit_status", command),
                                     SshCall(obj, "readlines", command)>>, "none")
         IN  IF a1.err # "none" THEN a1
             ELSE IF ExitStatus(command) # 0 THEN a2
             ELSE _execute_commands_stopping_on_status(obj, Tail(commands), fails, a2)

\* _execute_commands that goes on to the next command when exec_command raises
RECURSIVE _execute_commands_recovering(_, _, _, _)
_execute_commands_recovering(obj, commands, fails, acc) ==
    IF commands = <<>> THEN acc
    ELSE LET command == Head(commands)
             a1 == Issue(acc, SshCall(obj, "exec_command", command), fails)
             a2 == Acc(a1.calls \o <<SshCall(obj, "recv_exit_status", command),
                                     SshCall(obj, "readlines", command)>>, "none")
         IN  IF a1.err # "none"
             THEN _execute_commands_recovering(obj, Tail(commands), fails,
                                               Acc(a1.calls, "none"))
             ELSE _execute_commands_recovering(obj, Tail(commands), fails, a2)

\* _execute_commands: for each command exec_command, then the wait for the
\* exit status, then the read of the output; the exit status is not looked
\* at; an exception of exec_command leaves the loop
RECURSIVE _execute_commands(_, _, _, _)
_execute_commands(obj, commands, fails, acc) ==
    IF commands = <<>> THEN acc
    ELSE LET command == Head(commands)
             a1 == Issue(acc, SshCall(obj, "exec_command", command), fails)
             a2 == Acc(a1.calls \o <<SshCall(obj, "recv_exit_status", command),
                                     SshCall(obj, "readlines", command)>>, "none")
         IN  IF a1.err # "none" THEN a1
             ELSE _execute_commands(obj, Tail(commands), fails, a2)

----------------------------------------------------------------------------
\* disconnect

\* CloseIfSet with the close() wrapped in a try/except that swallows the failure
CloseIfSet_swallowing(d, obj, name, needsHasattr, closeFails) ==
    IF (needsHasattr => hasattr(obj, name)) /\ Truthy(obj[name])
    THEN IF obj[name] \in closeFails
         THEN [d EXCEPT !.calls = Append(@, obj[name])]
         ELSE [d EXCEPT !.calls = Append(@, obj[name]),
                        !.closed = @ \union {obj[name]}]
    ELSE d

\* One guarded close of disconnect, on what the call has done so far (the
\* close() calls it issued, the exception that ended it, the clients now
\* closed): the test on the attribute, then close()
CloseIfSet(d, obj, name, needsHasattr, closeFails) ==
    IF d.err # "none" THEN d
    ELSE IF (needsHasattr => hasattr(obj, name)) /\ Truthy(obj[name])
    THEN IF obj[name] \in closeFails
         THEN [d EXCEPT !.calls = Append(@, obj[name]), !.err = "IOError"]
         ELSE [d EXCEPT !.calls = Append(@, obj[name]),
                        !.closed = @ \union {obj[name]}]
    ELSE d

\* disconnect that leaves alone the clients it has closed before
disconnect_once(obj, wasClosed, closeFails) ==
    LET open(name) == IF obj[name] \in wasClosed THEN "None" ELSE obj[name]
        rest == [obj EXCEPT !.ssh_client = open("ssh_client"),
                            !.scp_client = open("scp_client"),
                            !.sftp_client = open("sftp_client")]
    IN  CloseIfSet(CloseIfSet(CloseIfSet([calls |-> <<>>, err |-> "none",
                                          closed |-> wasClosed],
                                         rest, "ssh_client", FALSE, closeFails),
                              rest, "scp_client", TRUE, closeFails),
                   rest, "sftp_client", TRUE, closeFails)

\* disconnect
disconnect(obj, wasClosed, closeFails) ==
    CloseIfSet(CloseIfSet(CloseIfSet([calls |-> <<>>, err |-> "none",
                                      closed |-> wasClosed],
                                     obj, "ssh_client", FALSE, closeFails),
                          obj, "scp_client", TRUE, closeFails),
               obj, "sftp_client", TRUE, closeFails)

\* number of occurrences of x in the sequence q
Count(q, x) == Cardinality({i \in 1..Len(q) : q[i] = x})

RemotePaths == {"/a", "/missing", "/b"}
Destinations == {"/remote/dst", "."}

\* the sequences over S of length at most n
SeqsUpTo(S, n) == UNION {[1..k -> S] : k \in 0..n}

\* the paths a transfer fails on: none, or one of S
Failing(S) == {{}} \union {{p} : p \in S}

NoOp == [op |-> "none", client |-> "None", sources |-> <<>>, destination |-> "",
         recursive |-> FALSE, fails |-> {}, calls |-> <<>>, err |-> "none"]

NoClose == [calls |-> <<>>, err |-> "none", fails |-> {}]

Init ==
    /\ self = NoObject
    /\ phase = "new"
    /\ error = "none"
    /\ env \in Envs
    /\ connects = <<>>
    /\ closed = {}
    /\ closeIssued = [h \in Client |-> 0]
    /\ disconnects = 0
    /\ lastClose = NoClose
    /\ lastOp = NoOp

\* Construct that closes the connection when a later step of __init__ raises
Construct_closing_on_failure ==
    /\ phase = "new"
    /\ LET c == __init__(env)
           left == c.err # "none" /\ c.self.ssh_client = "SSHClient"
       IN  /\ self' = c.self
           /\ error' = c.err
           /\ connects' = c.connects
           /\ phase' = IF c.err = "none" THEN "active" ELSE "failed"
           /\ closed' = IF left THEN {"SSHClient"} ELSE closed
           /\ closeIssued' = IF left THEN [closeIssued EXCEPT !["SSHClient"] = 1]
                              ELSE closeIssued
    /\ UNCHANGED <<env, disconnects, lastClose, lastOp>>

\* Connector(...): on an exception the caller gets no object
Construct ==
    /\ phase = "new"
    /\ LET c == __init__(env)
       IN  /\ self' = c.self
           /\ error' = c.err
           /\ connects' = c.connects
           /\ phase' = IF c.err = "none" THEN "active" ELSE "failed"
    /\ UNCHANGED <<env, closed, closeIssued, disconnects, lastClose, lastOp>>

\* A transfer is called on a constructed Connector.  Transfers change nothing of
\* the Connector, so one recorded transfer per behaviour loses no case.
CanTransfer == phase = "active" /\ lastOp = NoOp

Record(op, client, sources, destination, recursive, fails, acc) ==
    [op |-> op, client |-> client, sources |-> sources, destination |-> destination,
     recursive |-> recursive, fails |-> fails, calls |-> acc.calls, err |-> acc.err]

DownloadFile ==
    /\ CanTransfer
    /\ \E client \in Client, source \in RemotePaths, destination \in Destinations,
          recursive \in BOOLEAN, fails \in Failing(RemotePaths) :
         lastOp' = Record("_download_file", client, <<source>>, destination, recursive,
                          fails, _download_file(self, client, source, destination,
                                                recursive, fails, Acc(<<>>, "none")))
    /\ UNCHANGED <<self, phase, error, env, connects, closed, closeIssued,
                   disconnects, lastClose>>

DownloadFiles ==
    /\ CanTransfer
    /\ \E client \in Client, sources \in SeqsUpTo(RemotePaths, MaxSources),
          destination \in Destinations, recursive \in BOOLEAN,
          fails \in Failing(RemotePaths) :
         lastOp' = Record("_download_files", client, sources, destination, recursive,
                          fails, _download_files(self, client, sources, destination,
                                                 recursive, fails, Acc(<<>>, "none")))
    /\ UNCHANGED <<self, phase, error, env, connects, closed, closeIssued,
                   disconnects, lastClose>>

UploadFile ==
    /\ CanTransfer
    /\ \E client \in Client, source \in LocalFiles, destination \in Destinations,
          fails \in Failing(LocalFiles) :
         lastOp' = Record("_upload_file", client, <<source>>, destination, FALSE,
                          fails, _upload_file(self, client, source, destination,
                                              fails, Acc(<<>>, "none")))
    /\ UNCHANGED <<self, phase, error, env, connects, closed, closeIssued,
                   disconnects, lastClose>>

UploadFiles ==
    /\ CanTransfer
    /\ \E client \in Client, sources \in SeqsUpTo(UploadSources, MaxUploadSources),
          destination \in Destinations, recursive \in BOOLEAN,
          fails \in Failing(LocalFiles), rev \in BOOLEAN :
         lastOp' = Record("_upload_files", client, sources, destination, recursive,
                          fails, _upload_files(self, client, sources, destination,
                                               recursive, fails, rev,
                                               Acc(<<>>, "none")))
    /\ UNCHANGED <<self, phase, error, env, connects, closed, closeIssued,
                   disconnects, lastClose>>

\* the source lists a backup helper is called with: its default, or the caller's
BackupSources(default) == {default, <<"/a", "/missing">>}

BackupMedia ==
    /\ CanTransfer
    /\ \E client \in Client, sources \in BackupSources(MediaDirectories),
          destination \in Destinations :
         \E fails \in Failing({sources[i] : i \in 1..Len(sources)}) :
            lastOp' = Record("backup_android_media_directories", client, sources,
                             destination, TRUE, fails,
                             backup_android_media_directories(
                                 self, client, sources, destination, fails,
                                 Acc(<<>>, "none")))
    /\ UNCHANGED <<self, phase, error, env, connects, closed, closeIssued,
                   disconnects, lastClose>>

BackupDocuments ==
    /\ CanTransfer
    /\ \E client \in Client, sources \in BackupSources(DocumentDirectories),
          destination \in Destinations :
         \E fails \in Failing({sources[i] : i \in 1..Len(sources)}) :
            lastOp' = Record("backup_android_document_directories", client, sources,
                             destination, TRUE, fails,
                             backup_android_document_directories(
                                 self, client, sources, destination, fails,
                                 Acc(<<>>, "none")))
    /\ UNCHANGED <<self, phase, error, env, connects, closed, closeIssued,
                   disconnects, lastClose>>

RemoveDirectories ==
    /\ CanTransfer
    /\ \E paths \in SeqsUpTo(RemotePaths, MaxSources), fails \in Failing(RemotePaths) :
         lastOp' = Record("_remove_directories", "None", paths, "", FALSE, fails,
                          _remove_directories(self, paths, fails, Acc(<<>>, "none")))
    /\ UNCHANGED <<self, phase, error, env, connects, closed, closeIssued,
                   disconnects, lastClose>>

RemoveFiles ==
    /\ CanTransfer
    /\ \E paths \in SeqsUpTo(RemotePaths, MaxSources), fails \in Failing(RemotePaths) :
         lastOp' = Record("_remove_files", "None", paths, "", FALSE, fails,
                          _remove_files(self, paths, fails, Acc(<<>>, "none")))
    /\ UNCHANGED <<self, phase, error, env, connects, closed, closeIssued,
                   disconnects, lastClose>>

ExecuteCommands ==
    /\ CanTransfer
    /\ \E commands \in SeqsUpTo(Commands, MaxCommands), fails \in Failing(Commands) :
         lastOp' = Record("_execute_commands", "None", commands, "", FALSE, fails,
                          _execute_commands(self, commands, fails, Acc(<<>>, "none")))
    /\ UNCHANGED <<self, phase, error, env, connects, closed, closeIssued,
                   disconnects, lastClose>>

\* Disconnect that sets the attribute of every client it closed to None
Disconnect_clearing_handles ==
    /\ phase = "active"
    /\ lastOp = NoOp
    /\ disconnects < MaxDisconnects
    /\ \E closeFails \in Failing(Client) :
         LET d == disconnect(self, closed, closeFails)
             cleared(name) == IF self[name] \in d.closed THEN "None" ELSE self[name]
         IN  /\ closed' = d.closed
             /\ closeIssued' = [h \in Client |-> closeIssued[h] + Count(d.calls, h)]
             /\ lastClose' = [calls |-> d.calls, err |-> d.err, fails |-> closeFails]
             /\ self' = [self EXCEPT !.ssh_client = cleared("ssh_client"),
                                     !.scp_client = cleared("scp_client"),
                                     !.sftp_client = cleared("sftp_client")]
    /\ disconnects' = disconnects + 1
    /\ UNCHANGED <<phase, error, env, connects, lastOp>>

\* disconnect() is called on a constructed Connector.  The calls of disconnect
\* come before the recorded operation, so that an operation recorded with
\* closed clients is one that was called after their close; disconnect reads
\* nothing an operation writes.
Disconnect ==
    /\ phase = "active"
    /\ lastOp = NoOp
    /\ disconnects < MaxDisconnects
    /\ \E closeFails \in Failing(Client) :
         LET d == disconnect(self, closed, closeFails)
         IN  /\ closed' = d.closed
             /\ closeIssued' = [h \in Client |-> closeIssued[h] + Count(d.calls, h)]
             /\ lastClose' = [calls |-> d.calls, err |-> d.err, fails |-> closeFails]
    /\ disconnects' = disconnects + 1
    /\ UNCHANGED <<self, phase, error, env, connects, lastOp>>

\* The constructor against every environment, and disconnect
Next ==
    \/ Construct
    \/ Disconnect

Spec == Init /\ [][Next]_vars

\* The environments in which the constructor succeeds, one with a key and one
\* with a password: the transfers read nothing of the Connector but its three
\* clients
TransferEnvs ==
    {e \in Envs : /\ e.username = "bob" /\ e.password = "x"
                  /\ e.disk = KeyFiles /\ e.keyValid
                  /\ e.connect = "none" /\ e.transport /\ e.sftp}

InitTransfer == Init /\ env \in TransferEnvs

\* A constructed Connector, its transfers and disconnect
NextTransfer ==
    \/ Construct
    \/ DownloadFile
    \/ DownloadFiles
    \/ UploadFile
    \/ UploadFiles
    \/ BackupMedia
    \/ BackupDocuments
    \/ RemoveDirectories
    \/ RemoveFiles
    \/ ExecuteCommands
    \/ Disconnect

SpecTransfer == InitTransfer /\ [][NextTransfer]_vars

----------------------------------------------------------------------------
\* Helpers of the properties

Range(q) == {q[i] : i \in 1..Len(q)}

TransferClients == {"SCPClient", "SFTPClient"}

\* the regular files at any depth below a local path
RECURSIVE DescendantFiles(_)
DescendantFiles(path) ==
    IF is_file(path) THEN {path}
    ELSE UNION {DescendantFiles(entry) : entry \in Range(iterdir(path, FALSE))}

\* the calls of the recorded transfer that name a path
CallsOn(path) == {i \in 1..Len(lastOp.calls) : lastOp.calls[i].path = path}

\* the position of the first element of q that is in S, Len(q) + 1 if none
FirstIn(q, S) ==
    IF \E i \in 1..Len(q) : q[i] \in S
    THEN CHOOSE i \in 1..Len(q) : q[i] \in S /\ \A j \in 1..(i - 1) : q[j] \notin S
    ELSE Len(q) + 1

Min(a, b) == IF a < b THEN a ELSE b

\* the clients the Connector holds, in the order disconnect tests them
SetHandles ==
    SelectSeq(<<self.ssh_client, self.scp_client, self.sftp_client>>, Truthy)

----------------------------------------------------------------------------
\* C1: _upload_files with recursive=true on a single source directory issues
\* exactly one put for every regular file at every depth below it, each with
\* the destination it was called with.
C1_RecursiveUploadReachesEveryDepth ==
    (/\ lastOp.op = "_upload_files"
     /\ lastOp.recursive
     /\ lastOp.client \in TransferClients
     /\ lastOp.fails = {}
     /\ Len(lastOp.sources) = 1
     /\ is_dir(lastOp.sources[1]))
    => \A f \in DescendantFiles(lastOp.sources[1]) :
          /\ Cardinality(CallsOn(f)) = 1
          /\ \A i \in CallsOn(f) : lastOp.calls[i].dest = lastOp.destination

\* C2 as claimed: _download_files is best-effort, every source of the list
\* gets its get even when an earlier one failed.
C2_BestEffortDownload ==
    (lastOp.op = "_download_files" /\ lastOp.client \in TransferClients)
    => Len(lastOp.calls) = Len(lastOp.sources)

\* C2 as amended: _download_files stops at the first source whose download
\* fails; the sources before it and it were attempted, in order, none after
\* it, and the failure is what the caller gets.
C2_DownloadStopsAtFirstFailure ==
    (lastOp.op = "_download_files" /\ lastOp.client \in TransferClients)
    => LET stop == FirstIn(lastOp.sources, lastOp.fails)
           n == Min(stop, Len(lastOp.sources))
       IN  /\ Len(lastOp.calls) = n
           /\ \A i \in 1..n : lastOp.calls[i].path = lastOp.sources[i]
           /\ lastOp.err = IF stop <= Len(lastOp.sources) THEN "IOError" ELSE "none"

C2_Witness ==
    /\ lastOp.op = "_download_files"
    /\ lastOp.sources = <<"/a", "/missing", "/b">>
    /\ lastOp.fails = {"/missing"}
    /\ lastOp.err = "IOError"
    /\ Len(lastOp.calls) = 2

\* C3 as claimed: disconnect issues a close on every client that is set, also
\* when the close of another client failed.
C3_EveryHandleClosedDespiteFailure ==
    disconnects > 0 => \A h \in Range(SetHandles) : h \in Range(lastClose.calls)

\* C3 as amended: disconnect closes the clients that are set in the order
\* ssh, scp, sftp; a close that raises ends the call, the clients after it
\* get no close; when no close raises every client that is set gets one.
C3_CloseStopsAtFirstFailure ==
    disconnects > 0
    => LET stop == FirstIn(SetHandles, lastClose.fails)
           n == Min(stop, Len(SetHandles))
       IN  /\ lastClose.calls = SubSeq(SetHandles, 1, n)
           /\ lastClose.err = IF stop <= Len(SetHandles) THEN "IOError" ELSE "none"

C3_Witness ==
    /\ disconnects > 0
    /\ lastClose.fails = {"SSHClient"}
    /\ lastClose.calls = <<"SSHClient">>
    /\ lastClose.err = "IOError"
    /\ "SFTPClient" \notin closed

\* a disconnect() call made after an earlier one
LaterDisconnect == disconnects >= 1 /\ disconnects' = disconnects + 1

\* C4 as claimed: a second disconnect is a no-op, it issues no close on any
\* client and leaves everything as the first call left it.
C4_SecondCloseIsNoOp ==
    [][LaterDisconnect
       => closeIssued' = closeIssued /\ closed' = closed /\ self' = self]_vars

\* C4 as amended: a second disconnect leaves the attributes of the Connector
\* as they were and no closed client becomes open, but it issues close()
\* again, beginning with the ssh client, on the clients that are set.
C4_SecondCloseReissues ==
    [][LaterDisconnect
       => /\ self' = self
          /\ closed \subseteq closed'
          /\ lastClose'.calls # <<>>
          /\ lastClose'.calls[1] = self.ssh_client
          /\ \A h \in Range(lastClose'.calls) : closeIssued'[h] = closeIssued[h] + 1]_vars

C4_Witness ==
    /\ disconnects = 2
    /\ closed = Client
    /\ \A h \in Client : closeIssued[h] = 2

\* C5: when get_transport() returns nothing, the constructor still succeeds:
\* scp_client stays unset, ssh_client and sftp_client are set.
C5_DegradedModeWithoutTransport ==
    (phase # "new" /\ self.ssh_client = "SSHClient" /\ ~env.transport /\ env.sftp)
    => /\ phase = "active"
       /\ ~Truthy(self.scp_client)
       /\ self.sftp_client = "SFTPClient"

\* the names the failures of the constructor and of the transfers go by
CredentialFileMissing == "FileExistsError"
InsufficientCredentials == "Exception: Invalid credentials supplied"
HostKeyRejected == "BadHostKeyException"
AuthenticationFailed == "AuthenticationException"
UnsupportedTransport == NotSupported
TransportUnavailable == "TransportUnavailable"

NoHandleDerived ==
    /\ self.ssh_client = "absent"
    /\ self.scp_client = "absent"
    /\ self.sftp_client = "absent"

\* C6: _get_client fails for no tag, and when the transport was absent at the
\* derivation of the scp client there is a Connector whose downloads and
\* uploads with the SCPClient tag fail with TransportUnavailable, a failure
\* other than UnsupportedTransport, without any get or put.
C6_UnsetScpClientIsTransportUnavailable ==
    /\ phase = "active" => \A tag \in Client : _get_client(self, tag) # "absent"
    /\ (phase # "new" /\ self.ssh_client = "SSHClient" /\ ~env.transport /\ env.sftp)
       => /\ phase = "active"
          /\ \A source \in RemotePaths, destination \in Destinations, r \in BOOLEAN :
                _download_file(self, "SCPClient", source, destination, r, {},
                               Acc(<<>>, "none"))
                = Acc(<<>>, TransportUnavailable)
          /\ \A source \in LocalFiles, destination \in Destinations :
                _upload_file(self, "SCPClient", source, destination, {},
                             Acc(<<>>, "none"))
                = Acc(<<>>, TransportUnavailable)

\* C7: _download_file and _upload_file called with a tag that is neither
\* SCPClient nor SFTPClient raise the "not currently supported" exception and
\* issue no get or put.
C7_OtherTagUnsupported ==
    (lastOp.op \in {"_download_file", "_upload_file"}
     /\ lastOp.client \notin TransferClients)
    => lastOp.err = UnsupportedTransport /\ lastOp.calls = <<>>

C7_Witness ==
    /\ lastOp.op = "_upload_file"
    /\ lastOp.client = "SSHClient"
    /\ lastOp.err = UnsupportedTransport

\* C8: when connect raises AuthenticationException or BadHostKeyException the
\* constructor fails with that exception and none of ssh_client, scp_client,
\* sftp_client is ever assigned.
C8_RejectedConnectDerivesNoHandle ==
    (phase # "new" /\ connects # <<>>
     /\ env.connect \in {AuthenticationFailed, HostKeyRejected})
    => phase = "failed" /\ error = env.connect /\ NoHandleDerived

C8_Witness ==
    /\ phase = "failed"
    /\ error = AuthenticationFailed
    /\ env.ssh_credentials = <<>>
    /\ env.username = "bob"
    /\ env.password = "x"
    /\ Len(connects) = 1

\* C9: with key paths given, the constructor fails with FileExistsError exactly
\* when one of the two files does not exist, and then no key is loaded, no
\* connect is made and no client is assigned; when both exist the paths are
\* taken over and the key is loaded from the private key file.
C9_KeyFilesMustBothExist ==
    (phase # "new" /\ env.ssh_credentials # <<>>)
    => LET bothExist == /\ exists(env.ssh_credentials[1], env)
                        /\ exists(env.ssh_credentials[2], env)
       IN  /\ error = CredentialFileMissing <=> ~bothExist
           /\ ~bothExist => /\ phase = "failed"
                             /\ self.ssh_private_key = "None"
                             /\ self.ssh_private_key_file = "None"
                             /\ connects = <<>>
                             /\ NoHandleDerived
           /\ bothExist => /\ self.ssh_private_key_file = env.ssh_credentials[1]
                            /\ self.ssh_public_key_file = env.ssh_credentials[2]
                            /\ env.keyValid => self.ssh_private_key = "RSAKey"

C9_Witness ==
    /\ phase = "failed"
    /\ error = CredentialFileMissing
    /\ env.disk = {"id_rsa"}
    /\ env.username = "bob"
    /\ env.password = "x"

\* C10: without key paths and without both a non-empty username and a
\* non-empty password the constructor fails with the "Invalid credentials
\* supplied" exception, no connect call is made and no client is assigned.
C10_NoCredentialsNoConnect ==
    (phase # "new" /\ env.ssh_credentials = <<>>
     /\ ~(Truthy(env.username) /\ Truthy(env.password)))
    => /\ phase = "failed"
       /\ error = InsufficientCredentials
       /\ connects = <<>>
       /\ NoHandleDerived

C10_Witness ==
    /\ phase = "failed"
    /\ error = InsufficientCredentials
    /\ env.username = "bob"
    /\ env.password = ""
    /\ env.connect = "none"

----------------------------------------------------------------------------
\* C11: when key material was loaded the one connect call carries it, whether
\* or not a username and a password were given as well; a connect call without
\* key is made only when no key was loaded and username and password are both
\* non-empty.
C11_KeyBeforePassword ==
    phase # "new"
    => /\ self.ssh_private_key = "RSAKey"
          => connects = <<ConnectCall(self, TRUE)>> /\ connects[1].pkey = "RSAKey"
       /\ \A i \in 1..Len(connects) :
             connects[i].pkey = "None"
             => /\ ~Truthy(self.ssh_private_key)
                /\ Truthy(self.username) /\ Truthy(self.password)

C11_Witness ==
    /\ phase = "active"
    /\ self.ssh_private_key = "RSAKey"
    /\ self.username = "bob"
    /\ self.password = "x"
    /\ connects = <<[pkey |-> "RSAKey", username |-> "bob", password |-> "x"]>>

\* C13: at most one connect call is made per Connector, whatever its outcome:
\* a failed connect is not repeated, and the scp and sftp clients come from
\* the connection of the ssh client, without a connect call of their own.
C13_OneConnect ==
    /\ Len(connects) <= 1
    /\ phase = "active"
       => /\ Len(connects) = 1
          /\ self.ssh_client = "SSHClient"
          /\ self.scp_client = "SCPClient"
          /\ self.sftp_client = "SFTPClient"
    /\ (phase = "failed" /\ env.connect # "none") => self.ssh_client = "absent"

C13_Witness ==
    /\ phase = "active"
    /\ self.scp_client = "SCPClient"
    /\ self.sftp_client = "SFTPClient"
    /\ Len(connects) = 1
    /\ disconnects > 0

\* C20: when the connect succeeded and a later step of the constructor raises,
\* the constructor fails and no close is ever issued on the ssh client or on
\* a client derived so far, and nobody can call disconnect.
C20_FailedConstructionLeavesConnectionOpen ==
    (phase # "new" /\ env.connect = "none" /\ connects # <<>>
     /\ (~env.transport \/ ~env.sftp))
    => /\ phase = "failed"
       /\ self.ssh_client = "SSHClient"
       /\ closed = {}
       /\ \A h \in Client : closeIssued[h] = 0
       /\ disconnects = 0
       /\ ~ENABLED Disconnect

C20_Witness ==
    /\ phase = "failed"
    /\ error = "SSHException"
    /\ self.ssh_client = "SSHClient"
    /\ self.scp_client = "SCPClient"
    /\ self.sftp_client = "absent"
    /\ closed = {}

----------------------------------------------------------------------------
\* the three calls _execute_commands makes for one command
ExecCalls(command) ==
    <<SshCall(self, "exec_command", command),
      SshCall(self, "recv_exit_status", command),
      SshCall(self, "readlines", command)>>

\* the calls of the recorded operation are those of the first n commands of
\* its list, each command once, in the order of the list
RanInOrder(n) ==
    \A i \in 1..n : \A k \in 1..3 :
        lastOp.calls[3 * (i - 1) + k] = ExecCalls(lastOp.sources[i])[k]

\* C12: _execute_commands runs every command of the list once, in the order
\* of the list, waiting for the exit status and reading the output of one
\* before the next is started; a non-zero exit status stops nothing.
C12_EveryCommandRunsInOrder ==
    (lastOp.op = "_execute_commands" /\ Range(lastOp.sources) \cap lastOp.fails = {})
    => /\ Len(lastOp.calls) = 3 * Len(lastOp.sources)
       /\ RanInOrder(Len(lastOp.sources))
       /\ lastOp.err = "none"

C12_Witness ==
    /\ lastOp.op = "_execute_commands"
    /\ lastOp.sources = <<"echo hi", "false", "ls /sdcard">>
    /\ ExitStatus(lastOp.sources[2]) # 0
    /\ Len(lastOp.calls) = 9
    /\ lastOp.calls[7].method = "exec_command"
    /\ lastOp.calls[7].path = "ls /sdcard"

\* C16: when exec_command raises on command i of the list the exception is
\* what the caller gets: the commands before i were run, exec_command of i is
\* the last call made, no later command is started.
C16_ExecFailurePropagates ==
    (lastOp.op = "_execute_commands" /\ Range(lastOp.sources) \cap lastOp.fails # {})
    => LET i == FirstIn(lastOp.sources, lastOp.fails)
       IN  /\ lastOp.err # "none"
           /\ Len(lastOp.calls) = 3 * (i - 1) + 1
           /\ RanInOrder(i - 1)
           /\ lastOp.calls[3 * (i - 1) + 1] = ExecCalls(lastOp.sources[i])[1]

C16_Witness ==
    /\ lastOp.op = "_execute_commands"
    /\ lastOp.sources = <<"echo hi", "ls /sdcard", "false">>
    /\ lastOp.fails = {"ls /sdcard"}
    /\ lastOp.err = "IOError"
    /\ Len(lastOp.calls) = 4

----------------------------------------------------------------------------
BackupOps == {"backup_android_media_directories", "backup_android_document_directories"}

----------------------------------------------------------------------------
RemovalOps == {"_remove_files", "_remove_directories"}

\* C17 as claimed: the batch removals are per-item independent, every path of
\* the list gets its removal even when an earlier one failed.
C17_RemovalPerItemIndependent ==
    lastOp.op \in RemovalOps => Len(lastOp.calls) = Len(lastOp.sources)

\* C17 as amended: _remove_files and _remove_directories stop at the first
\* path whose removal fails; the paths before it and it were attempted, in
\* order, none after it, and the failure is what the caller gets.
C17_RemovalStopsAtFirstFailure ==
    lastOp.op \in RemovalOps
    => LET stop == FirstIn(lastOp.sources, lastOp.fails)
           n == Min(stop, Len(lastOp.sources))
       IN  /\ Len(lastOp.calls) = n
           /\ \A i \in 1..n :
                 /\ lastOp.calls[i].path = lastOp.sources[i]
                 /\ lastOp.calls[i].handle = "SFTPClient"
                 /\ lastOp.calls[i].method
                    = IF lastOp.op = "_remove_files" THEN "remove" ELSE "rmdir"
           /\ lastOp.err = IF stop <= Len(lastOp.sources) THEN "IOError" ELSE "none"

C17_Witness ==
    /\ lastOp.op = "_remove_files"
    /\ lastOp.sources = <<"/a", "/missing", "/b">>
    /\ lastOp.fails = {"/missing"}
    /\ lastOp.err = "IOError"
    /\ Len(lastOp.calls) = 2

----------------------------------------------------------------------------
\* what _get_client gives and where the operations go on a constructed object
HandlesAsConstructed ==
    /\ \A tag \in Client : _get_client(self, tag) = tag
    /\ self.username = env.username
    /\ self.password = env.password

\* an operation recorded after a close went to the closed client all the same
RoutedToClosedHandle ==
    /\ (lastOp.op \in {"_download_file", "_upload_file"}
        /\ lastOp.client \in closed \cap TransferClients)
       => /\ Len(lastOp.calls) = 1
          /\ lastOp.calls[1].handle = lastOp.client
          /\ lastOp.err # NotSupported
    /\ (lastOp.op = "_execute_commands" /\ "SSHClient" \in closed
        /\ lastOp.sources # <<>>)
       => /\ lastOp.calls[1].handle = "SSHClient"
          /\ lastOp.calls[1].method = "exec_command"

\* C19: disconnect leaves the attributes of the Connector (credentials, the
\* three clients) as they were: after any number of disconnect calls
\* _get_client gives for each tag the client it gave before, and a transfer
\* or a command called after the close is issued on the closed client, the
\* Connector does not refuse it.
C19_CloseKeepsHandles ==
    [][phase' = "active"
       => /\ phase = "active" => self' = self
          /\ HandlesAsConstructed'
          /\ RoutedToClosedHandle']_vars

C19_Witness ==
    /\ disconnects >= 1
    /\ closed = Client
    /\ lastOp.op = "_download_file"
    /\ lastOp.client = "SCPClient"
    /\ Len(lastOp.calls) = 1
    /\ lastOp.calls[1].handle = "SCPClient"
    /\ _get_client(self, "SCPClient") = "SCPClient"

====
